---- MODULE Spec2Model ----
(***************************************************************************)
(* Model of mybind.py: the merge of "key" fields (apply_binds) and the     *)
(* batch flow of main() (load source, then load / merge / save each        *)
(* target).                                                                *)
(*                                                                         *)
(* JSON values are tagged records [isdict, items, raw]: a JSON object has  *)
(* isdict = TRUE and its members in items; any other JSON value has        *)
(* isdict = FALSE and an opaque tag in raw.  Field values ("key", "sens")  *)
(* are opaque strings: apply_binds never looks inside them.                *)
(*                                                                         *)
(* Paths are sequences of tokens; "/" and "." are the separator tokens,    *)
(* every other token stands for a run of ordinary characters.  The path    *)
(* functions follow posixpath / genericpath.                               *)
(***************************************************************************)
EXTENDS Integers, Sequences, FiniteSets, TLC

VARIABLES ask_where_to_save, pc, src_path, dst_paths, chosen_out_file,
          chosen_out_dir, src_cfg, dst_cfg, dst_before, updated, idx,
          out_path, generated_paths, disk, trace, exit_status, err_path

vars == <<ask_where_to_save, pc, src_path, dst_paths, chosen_out_file,
          chosen_out_dir, src_cfg, dst_cfg, dst_before, updated, idx,
          out_path, generated_paths, disk, trace, exit_status, err_path>>

\* ------------------------------------------------------------------------
\* Bounds and input sets
\* ------------------------------------------------------------------------
MaxTargets == 2

Modules == {"move", "jump"}
Fields == {"key", "sens"}
KeyValues == {"W", "UP", "null"}
SensValues == {"1.0"}

EmptyMap == [x \in {} |-> "x"]
EmptyPath == << >>

JDict(f) == [isdict |-> TRUE, items |-> f, raw |-> "-"]
JRaw(v) == [isdict |-> FALSE, items |-> EmptyMap, raw |-> v]

Unset == JRaw("unset")
Partial == JRaw("partial")

FieldMaps ==
  UNION {{f \in [D -> KeyValues \cup SensValues] :
            /\ ("key" \in D => f["key"] \in KeyValues)
            /\ ("sens" \in D => f["sens"] \in SensValues)} : D \in SUBSET Fields}

Entries == {JRaw("5")} \cup {JDict(f) : f \in FieldMaps}

Docs == {JDict(d) : d \in UNION {[M -> Entries] : M \in SUBSET Modules}}

\* contents a file of the batch run may have
DocBinds == JDict([m \in {"move", "jump"} |->
                     IF m = "move" THEN JDict("key" :> "W")
                                   ELSE JDict("key" :> "null")])
DocTarget == JDict([m \in {"move", "jump"} |->
                     IF m = "move" THEN JDict(("key" :> "UP") @@ ("sens" :> "1.0"))
                                   ELSE JRaw("5")])
DocEmpty == JDict(EmptyMap)
DocList == JRaw("list")
FileContents == {DocBinds, DocTarget, DocEmpty, DocList}

SourcePaths == {<<"d", "/", "s", ".", "json">>}
TargetPaths == {<<"d", "/", "a", ".", "json">>, <<"d", "/", "b", ".", "json">>,
                <<"e", "/", "a", ".", "cfg">>, <<"/", ".", "rc">>}
OutFiles == {<<"o", "/", "r", ".", "json">>}
OutDirs == {<<"o">>, <<"/">>}

TargetSeqs == UNION {[1..n -> TargetPaths] : n \in 0..MaxTargets}

\* ------------------------------------------------------------------------
\* os.path helpers
\* ------------------------------------------------------------------------
Max(S) == CHOOSE x \in S : \A y \in S : y <= x

\* str.rfind, 1-based; 0 when the token does not occur
rfind(p, c) == Max({0} \cup {k \in 1..Len(p) : p[k] = c})

\* str.rstrip("/")
rstrip(p) == SubSeq(p, 1, Max({0} \cup {k \in 1..Len(p) : p[k] # "/"}))

dirname(p) ==
  LET head == SubSeq(p, 1, rfind(p, "/"))
  IN IF head # << >> /\ (\E k \in 1..Len(head) : head[k] # "/")
       THEN rstrip(head) ELSE head

basename(p) == SubSeq(p, rfind(p, "/") + 1, Len(p))

\* os.path.splitext(p)[0]
splitext(p) ==
  LET sepIndex == rfind(p, "/")
      dotIndex == rfind(p, ".")
  IN IF /\ dotIndex > sepIndex
        /\ \E k \in (sepIndex + 1)..(dotIndex - 1) : p[k] # "."
       THEN SubSeq(p, 1, dotIndex - 1)
       ELSE p

path_join(a, b) ==
  IF b # << >> /\ b[1] = "/" THEN b
  ELSE IF a = << >> \/ a[Len(a)] = "/" THEN a \o b
  ELSE a \o <<"/">> \o b

\* OUTPUT_NAME_PATTERN.format(base=base)
OUTPUT_NAME_PATTERN(base) == base \o <<"_mybind", ".", "json">>

\* ------------------------------------------------------------------------
\* apply_binds
\* ------------------------------------------------------------------------
\* variant: params.clear() instead of params.pop("key", None)
StripPass_clear(dst) ==
  [m \in DOMAIN dst |-> IF dst[m].isdict THEN JDict(EmptyMap) ELSE dst[m]]

\* variant: only the modules the source also has are stripped
StripPass_common(src, dst) ==
  [m \in DOMAIN dst |->
     IF dst[m].isdict /\ m \in DOMAIN src
       THEN JDict([f \in (DOMAIN dst[m].items) \ {"key"} |-> dst[m].items[f]])
       ELSE dst[m]]

\* 1) remove: params.pop("key", None) on every dict entry
StripPass(dst) ==
  [m \in DOMAIN dst |->
     IF dst[m].isdict
       THEN JDict([f \in (DOMAIN dst[m].items) \ {"key"} |-> dst[m].items[f]])
       ELSE dst[m]]

\* variant: the copy is gated by the truthiness of the source's key
CopyPass_truthy(src, dst) ==
  [m \in DOMAIN dst |->
     IF /\ m \in DOMAIN src /\ src[m].isdict /\ "key" \in DOMAIN src[m].items
        /\ src[m].items["key"] # "null"
       THEN JDict(("key" :> src[m].items["key"]) @@
                  (IF dst[m].isdict THEN dst[m].items ELSE EmptyMap))
       ELSE dst[m]]

\* variant: the copy does not test "module in dst_cfg"
CopyPass_add(src, dst) ==
  [m \in DOMAIN dst \cup {n \in DOMAIN src :
                            src[n].isdict /\ "key" \in DOMAIN src[n].items} |->
     IF m \in DOMAIN src /\ src[m].isdict /\ "key" \in DOMAIN src[m].items
       THEN JDict(("key" :> src[m].items["key"]) @@
                  (IF m \in DOMAIN dst /\ dst[m].isdict
                     THEN dst[m].items ELSE EmptyMap))
       ELSE dst[m]]

\* 2) copy
CopyPass(src, dst) ==
  [m \in DOMAIN dst |->
     IF m \in DOMAIN src /\ src[m].isdict /\ "key" \in DOMAIN src[m].items
       THEN JDict(("key" :> src[m].items["key"]) @@
                  (IF dst[m].isdict THEN dst[m].items ELSE EmptyMap))
       ELSE dst[m]]

\* variant: the two passes in the other order
apply_binds_swapped(s, d) == JDict(StripPass(CopyPass(s.items, d.items)))

\* variant: the strip pass looks at the source
apply_binds_strip_common(s, d) ==
  JDict(CopyPass(s.items, StripPass_common(s.items, d.items)))

apply_binds(s, d) == JDict(CopyPass(s.items, StripPass(d.items)))

\* ------------------------------------------------------------------------
\* main(): output path of one target (lines 247-269)
\* ------------------------------------------------------------------------
\* variant: the folder branch does not fall back when no folder was chosen
resolve_out_path_nofallback(dst_path) ==
  IF ~ask_where_to_save
    THEN path_join(dirname(dst_path),
                   OUTPUT_NAME_PATTERN(splitext(basename(dst_path))))
  ELSE IF Len(dst_paths) = 1
    THEN IF chosen_out_file # EmptyPath
           THEN chosen_out_file
           ELSE path_join(dirname(dst_path),
                          OUTPUT_NAME_PATTERN(splitext(basename(dst_path))))
  ELSE path_join(chosen_out_dir,
                 OUTPUT_NAME_PATTERN(splitext(basename(dst_path))))

resolve_out_path(dst_path) ==
  IF ~ask_where_to_save
    THEN path_join(dirname(dst_path),
                   OUTPUT_NAME_PATTERN(splitext(basename(dst_path))))
  ELSE IF Len(dst_paths) = 1
    THEN IF chosen_out_file # EmptyPath
           THEN chosen_out_file
           ELSE path_join(dirname(dst_path),
                          OUTPUT_NAME_PATTERN(splitext(basename(dst_path))))
  ELSE LET base == splitext(basename(dst_path))
           out_dir == IF chosen_out_dir # EmptyPath
                        THEN chosen_out_dir ELSE dirname(dst_path)
       IN path_join(out_dir, OUTPUT_NAME_PATTERN(base))

\* ------------------------------------------------------------------------
\* main(): the run, one action per step
\* ------------------------------------------------------------------------
Ev(op, k) == [op |-> op, k |-> k]

Init ==
  /\ ask_where_to_save \in BOOLEAN
  /\ pc = "step1"
  /\ src_path = EmptyPath
  /\ dst_paths = << >>
  /\ chosen_out_file = EmptyPath
  /\ chosen_out_dir = EmptyPath
  /\ src_cfg = Unset
  /\ dst_cfg = Unset
  /\ dst_before = Unset
  /\ updated = Unset
  /\ idx = 1
  /\ out_path = EmptyPath
  /\ generated_paths = << >>
  /\ disk = EmptyMap
  /\ trace = << >>
  /\ exit_status = "running"
  /\ err_path = EmptyPath

\* Step 1: choose source; an empty answer cancels (sys.exit(0))
ChooseSource ==
  /\ pc = "step1"
  /\ \E p \in SourcePaths \cup {EmptyPath} :
       /\ src_path' = p
       /\ IF p = EmptyPath
            THEN pc' = "exit" /\ exit_status' = "cancelled"
            ELSE pc' = "step2" /\ UNCHANGED exit_status
  /\ UNCHANGED <<ask_where_to_save, dst_paths, chosen_out_file, chosen_out_dir,
                 src_cfg, dst_cfg, dst_before, updated, idx, out_path,
                 generated_paths, disk, trace, err_path>>

\* Step 2: choose target(s); an empty selection cancels
ChooseTargets ==
  /\ pc = "step2"
  /\ \E ps \in TargetSeqs :
       /\ dst_paths' = ps
       /\ IF ps = << >>
            THEN pc' = "exit" /\ exit_status' = "cancelled"
            ELSE pc' = "step3" /\ UNCHANGED exit_status
  /\ UNCHANGED <<ask_where_to_save, src_path, chosen_out_file, chosen_out_dir,
                 src_cfg, dst_cfg, dst_before, updated, idx, out_path,
                 generated_paths, disk, trace, err_path>>

\* Step 3: where to save (an empty answer means "not chosen")
ChooseOutput ==
  /\ pc = "step3"
  /\ IF ask_where_to_save
       THEN IF Len(dst_paths) = 1
              THEN /\ chosen_out_file' \in OutFiles \cup {EmptyPath}
                   /\ UNCHANGED chosen_out_dir
              ELSE /\ chosen_out_dir' \in OutDirs \cup {EmptyPath}
                   /\ UNCHANGED chosen_out_file
       ELSE UNCHANGED <<chosen_out_file, chosen_out_dir>>
  /\ pc' = "load_src"
  /\ UNCHANGED <<ask_where_to_save, src_path, dst_paths, src_cfg, dst_cfg,
                 dst_before, updated, idx, out_path, generated_paths, disk,
                 trace, exit_status, err_path>>

\* src_cfg = load_json(src_path); generated_paths = []
LoadSource ==
  /\ pc = "load_src"
  /\ \/ \E c \in FileContents :
          /\ src_cfg' = c
          /\ generated_paths' = << >>
          /\ trace' = Append(trace, Ev("load_src", 0))
          /\ pc' = "loop"
          /\ UNCHANGED <<exit_status, err_path>>
     \/ /\ trace' = trace \o <<Ev("load_src", 0), Ev("load_fail", 0)>>
        /\ pc' = "exit"
        /\ exit_status' = "load_error"
        /\ err_path' = src_path
        /\ UNCHANGED <<src_cfg, generated_paths>>
  /\ UNCHANGED <<ask_where_to_save, src_path, dst_paths, chosen_out_file,
                 chosen_out_dir, dst_cfg, dst_before, updated, idx, out_path,
                 disk>>

\* variant: a target that fails to load is skipped and the loop goes on
LoadTarget_continue ==
  /\ pc = "loop"
  /\ idx <= Len(dst_paths)
  /\ \/ \E c \in FileContents :
          /\ dst_cfg' = c
          /\ dst_before' = c
          /\ trace' = Append(trace, Ev("load", idx))
          /\ pc' = "merge"
          /\ UNCHANGED <<exit_status, err_path, idx>>
     \/ /\ trace' = trace \o <<Ev("load", idx), Ev("load_fail", idx)>>
        /\ pc' = "loop"
        /\ idx' = idx + 1
        /\ exit_status' = "load_error"
        /\ err_path' = dst_paths[idx]
        /\ UNCHANGED <<dst_cfg, dst_before>>
  /\ UNCHANGED <<ask_where_to_save, src_path, dst_paths, chosen_out_file,
                 chosen_out_dir, src_cfg, updated, out_path,
                 generated_paths, disk>>

\* variant: the source is loaded inside the loop, once per target
LoadTarget_reload ==
  /\ pc = "loop"
  /\ idx <= Len(dst_paths)
  /\ \E s \in {c \in FileContents : c.isdict}, c \in FileContents :
       /\ src_cfg' = s
       /\ dst_cfg' = c
       /\ dst_before' = c
       /\ trace' = trace \o <<Ev("load_src", 0), Ev("load", idx)>>
       /\ pc' = "merge"
  /\ UNCHANGED <<ask_where_to_save, src_path, dst_paths, chosen_out_file,
                 chosen_out_dir, updated, idx, out_path, generated_paths,
                 disk, exit_status, err_path>>

\* dst_cfg = load_json(dst_path) for the next target of the loop
LoadTarget ==
  /\ pc = "loop"
  /\ idx <= Len(dst_paths)
  /\ \/ \E c \in FileContents :
          /\ dst_cfg' = c
          /\ dst_before' = c
          /\ trace' = Append(trace, Ev("load", idx))
          /\ pc' = "merge"
          /\ UNCHANGED <<exit_status, err_path>>
     \/ /\ trace' = trace \o <<Ev("load", idx), Ev("load_fail", idx)>>
        /\ pc' = "exit"
        /\ exit_status' = "load_error"
        /\ err_path' = dst_paths[idx]
        /\ UNCHANGED <<dst_cfg, dst_before>>
  /\ UNCHANGED <<ask_where_to_save, src_path, dst_paths, chosen_out_file,
                 chosen_out_dir, src_cfg, updated, idx, out_path,
                 generated_paths, disk>>

\* updated = apply_binds(src_cfg, dst_cfg); a root that is not a dict has no
\* .items(): AttributeError, not caught anywhere
Merge ==
  /\ pc = "merge"
  /\ IF ~dst_cfg.isdict
       THEN /\ pc' = "exit"
            /\ exit_status' = "crash"
            /\ UNCHANGED <<dst_cfg, updated, trace>>
     ELSE IF ~src_cfg.isdict
       THEN /\ dst_cfg' = JDict(StripPass(dst_cfg.items))
            /\ pc' = "exit"
            /\ exit_status' = "crash"
            /\ UNCHANGED <<updated, trace>>
     ELSE /\ dst_cfg' = apply_binds(src_cfg, dst_cfg)
          /\ updated' = dst_cfg'
          /\ trace' = Append(trace, Ev("merge", idx))
          /\ pc' = "resolve"
          /\ UNCHANGED exit_status
  /\ UNCHANGED <<ask_where_to_save, src_path, dst_paths, chosen_out_file,
                 chosen_out_dir, src_cfg, dst_before, idx, out_path,
                 generated_paths, disk, err_path>>

\* Determine out_path
ResolveOutPath ==
  /\ pc = "resolve"
  /\ out_path' = resolve_out_path(dst_paths[idx])
  /\ pc' = "save"
  /\ UNCHANGED <<ask_where_to_save, src_path, dst_paths, chosen_out_file,
                 chosen_out_dir, src_cfg, dst_cfg, dst_before, updated, idx,
                 generated_paths, disk, trace, exit_status, err_path>>

\* variant: an output path already in the list is not written or listed again
Save_dedup ==
  /\ pc = "save"
  /\ IF \E k \in 1..Len(generated_paths) : generated_paths[k] = out_path
       THEN UNCHANGED <<disk, generated_paths, trace>>
       ELSE /\ disk' = (out_path :> updated) @@ disk
            /\ generated_paths' = Append(generated_paths, out_path)
            /\ trace' = Append(trace, Ev("save", idx))
  /\ idx' = idx + 1
  /\ pc' = "loop"
  /\ UNCHANGED <<ask_where_to_save, src_path, dst_paths, chosen_out_file,
                 chosen_out_dir, src_cfg, dst_cfg, dst_before, updated,
                 out_path, exit_status, err_path>>

\* save_json(updated, out_path); generated_paths.append(out_path).
\* A failing save either never opened the file, or opened (truncated) it and
\* failed while writing.
Save ==
  /\ pc = "save"
  /\ \/ /\ disk' = (out_path :> updated) @@ disk
        /\ generated_paths' = Append(generated_paths, out_path)
        /\ trace' = Append(trace, Ev("save", idx))
        /\ idx' = idx + 1
        /\ pc' = "loop"
        /\ UNCHANGED <<exit_status, err_path>>
     \/ /\ \/ UNCHANGED disk
           \/ disk' = (out_path :> Partial) @@ disk
        /\ trace' = Append(trace, Ev("save_fail", idx))
        /\ pc' = "exit"
        /\ exit_status' = "save_error"
        /\ err_path' = out_path
        /\ UNCHANGED <<generated_paths, idx>>
  /\ UNCHANGED <<ask_where_to_save, src_path, dst_paths, chosen_out_file,
                 chosen_out_dir, src_cfg, dst_cfg, dst_before, updated,
                 out_path>>

\* Report: the loop is over
Report ==
  /\ pc = "loop"
  /\ idx > Len(dst_paths)
  /\ pc' = "done"
  /\ exit_status' = "ok"
  /\ UNCHANGED <<ask_where_to_save, src_path, dst_paths, chosen_out_file,
                 chosen_out_dir, src_cfg, dst_cfg, dst_before, updated, idx,
                 out_path, generated_paths, disk, trace, err_path>>

Next ==
  \/ ChooseSource
  \/ ChooseTargets
  \/ ChooseOutput
  \/ LoadSource
  \/ LoadTarget
  \/ Merge
  \/ ResolveOutPath
  \/ Save
  \/ Report

Spec == Init /\ [][Next]_vars

\* ------------------------------------------------------------------------
\* apply_binds on its own: every pair of documents over Modules
\* ------------------------------------------------------------------------
MergeInit ==
  /\ ask_where_to_save = FALSE
  /\ pc = "merge"
  /\ src_path \in SourcePaths
  /\ dst_paths = <<CHOOSE p \in TargetPaths : p[1] = "d" /\ p[3] = "a">>
  /\ chosen_out_file = EmptyPath
  /\ chosen_out_dir = EmptyPath
  /\ src_cfg \in Docs
  /\ dst_cfg \in Docs
  /\ dst_before = dst_cfg
  /\ updated = Unset
  /\ idx = 1
  /\ out_path = EmptyPath
  /\ generated_paths = << >>
  /\ disk = EmptyMap
  /\ trace = <<Ev("load_src", 0), Ev("load", 1)>>
  /\ exit_status = "running"
  /\ err_path = EmptyPath

MergeNext == Merge

MergeSpec == MergeInit /\ [][MergeNext]_vars

\* ------------------------------------------------------------------------
\* Properties of apply_binds (checked under MergeSpec)
\* ------------------------------------------------------------------------
Returned == pc = "resolve"

SuppliesKey(m) ==
  /\ m \in DOMAIN src_cfg.items
  /\ src_cfg.items[m].isdict
  /\ "key" \in DOMAIN src_cfg.items[m].items

HasKey(e) == e.isdict /\ "key" \in DOMAIN e.items

\* C1 (copy fidelity): after apply_binds, every module present in both
\* documents whose source entry is a mapping with a "key" field (whatever its
\* value) is a mapping in the target whose "key" equals the source's "key".
C1_CopyFidelity ==
  Returned =>
    \A m \in DOMAIN dst_before.items :
      SuppliesKey(m) =>
        /\ m \in DOMAIN updated.items
        /\ HasKey(updated.items[m])
        /\ updated.items[m].items["key"] = src_cfg.items[m].items["key"]

C1_Witness ==
  /\ Returned
  /\ \E m \in DOMAIN dst_before.items :
       /\ SuppliesKey(m)
       /\ src_cfg.items[m].items["key"] = "null"
       /\ HasKey(dst_before.items[m])
       /\ dst_before.items[m].items["key"] = "UP"
       /\ updated.items[m].items["key"] = "null"

\* C2 (field isolation): every field other than "key" of a mapping entry of
\* the target keeps its value, and no field other than "key" is added to or
\* removed from any module entry.
C2_FieldIsolation ==
  Returned =>
    \A m \in DOMAIN dst_before.items :
      /\ m \in DOMAIN updated.items
      /\ DOMAIN updated.items[m].items \ {"key"}
           = DOMAIN dst_before.items[m].items \ {"key"}
      /\ dst_before.items[m].isdict =>
           /\ updated.items[m].isdict
           /\ \A f \in DOMAIN dst_before.items[m].items \ {"key"} :
                updated.items[m].items[f] = dst_before.items[m].items[f]

C2_Witness ==
  /\ Returned
  /\ \E m \in DOMAIN dst_before.items :
       /\ SuppliesKey(m)
       /\ HasKey(dst_before.items[m])
       /\ "sens" \in DOMAIN dst_before.items[m].items
       /\ updated.items[m].items["key"] # dst_before.items[m].items["key"]
       /\ updated.items[m].items["sens"] = "1.0"

\* C3 (module-set preservation): the merged target has exactly the module
\* names of the original target; a module only the source has is not added.
C3_ModuleSetPreserved ==
  Returned =>
    /\ DOMAIN updated.items = DOMAIN dst_before.items
    /\ \A m \in DOMAIN src_cfg.items \ DOMAIN dst_before.items :
         m \notin DOMAIN updated.items

C3_Witness ==
  /\ Returned
  /\ \E m \in DOMAIN src_cfg.items \ DOMAIN dst_before.items : SuppliesKey(m)
  /\ dst_before.items # EmptyMap
  /\ DOMAIN updated.items = DOMAIN dst_before.items

\* C4 (key removal): a mapping entry of the target whose module the source
\* lacks, or whose source entry supplies no "key", has no "key" after the
\* merge; with an empty source no entry of the merged target has a "key".
C4_KeyRemoved ==
  Returned =>
    /\ \A m \in DOMAIN dst_before.items :
         (dst_before.items[m].isdict /\ ~SuppliesKey(m)) =>
           /\ m \in DOMAIN updated.items
           /\ updated.items[m].isdict
           /\ "key" \notin DOMAIN updated.items[m].items
    /\ src_cfg.items = EmptyMap =>
         \A m \in DOMAIN updated.items : ~HasKey(updated.items[m])

C4_Witness ==
  /\ Returned
  /\ \E m \in DOMAIN dst_before.items :
       /\ HasKey(dst_before.items[m])
       /\ m \notin DOMAIN src_cfg.items
       /\ ~HasKey(updated.items[m])
  /\ \E n \in DOMAIN dst_before.items : SuppliesKey(n)

\* the other order of the passes: copy, then strip
CopyThenStrip == JDict(StripPass(CopyPass(src_cfg.items, dst_before.items)))

CopyTargets == {m \in DOMAIN dst_before.items : SuppliesKey(m)}

\* C10 as stated: copy-then-strip yields the same merged document as
\* apply_binds (strip-then-copy), for every source and target.
C10_OrderIndependent == Returned => CopyThenStrip = updated

\* C10 amended: copy-then-strip yields the same merged document as
\* apply_binds exactly when no module of the target is supplied a "key" by
\* the source; whenever some "key" is copied the two orders differ.
C10_OrderMatters == Returned => ((CopyThenStrip = updated) <=> (CopyTargets = {}))

C10_Witness ==
  /\ Returned
  /\ CopyTargets # {}
  /\ CopyThenStrip # updated
  /\ \A m \in DOMAIN CopyThenStrip.items : ~HasKey(CopyThenStrip.items[m])

\* ------------------------------------------------------------------------
\* Properties of the batch run (checked under Spec)
\* ------------------------------------------------------------------------
Stopped == pc \in {"exit", "done"}

\* C5 as stated: a document whose root parses but is not an object ends the
\* run as a load error that references that document's path, and nothing is
\* written for it.
C5_NonObjectIsLoadError ==
  Stopped =>
    /\ (src_cfg # Unset /\ ~src_cfg.isdict) =>
         /\ exit_status = "load_error"
         /\ err_path = src_path
         /\ disk = EmptyMap
    /\ (dst_before # Unset /\ ~dst_before.isdict) =>
         /\ exit_status = "load_error"
         /\ err_path = dst_paths[idx]
         /\ \A j \in 1..Len(trace) : trace[j] # Ev("save", idx)

IsFail(e) == e.op \in {"load_fail", "save_fail"}

\* C6 (halt on first error): when the load or the save of the target at
\* position i fails, nothing happens afterwards (no later target is loaded,
\* merged or written), a target that failed to load has no write, and the
\* outputs of the targets before i are still on disk.
C6_HaltOnFirstError ==
  \A j \in 1..Len(trace) :
    (IsFail(trace[j]) /\ trace[j].k >= 1) =>
      LET i == trace[j].k IN
        /\ j = Len(trace)
        /\ pc = "exit"
        /\ \A n \in 1..Len(trace) : trace[n].k <= i
        /\ trace[j].op = "load_fail" =>
             \A n \in 1..Len(trace) : trace[n] # Ev("save", i)
        /\ Len(generated_paths) = i - 1
        /\ \A n \in 1..(i - 1) :
             /\ generated_paths[n] \in DOMAIN disk
             /\ \E q \in 1..Len(trace) : trace[q] = Ev("save", n)

C6_Witness ==
  /\ pc = "exit"
  /\ Len(dst_paths) >= 2
  /\ trace[Len(trace)] = Ev("load_fail", 2)
  /\ Len(generated_paths) = 1
  /\ generated_paths[1] \in DOMAIN disk

\* C7 (full success): the list of output paths is as long as the target
\* list, its i-th element is the output path of the i-th target (duplicates
\* included), and each target was written exactly once.
C7_OneOutputPerTarget ==
  pc = "done" =>
    /\ Len(generated_paths) = Len(dst_paths)
    /\ \A n \in 1..Len(dst_paths) :
         /\ generated_paths[n] = resolve_out_path(dst_paths[n])
         /\ Cardinality({q \in 1..Len(trace) : trace[q] = Ev("save", n)}) = 1

C7_Witness ==
  /\ pc = "done"
  /\ Len(dst_paths) >= 2
  /\ dst_paths[1] = dst_paths[2]
  /\ Len(generated_paths) = Len(dst_paths)
  /\ generated_paths[1] = generated_paths[2]

\* the sibling-mode path: the target's directory joined with the pattern
\* applied to the target's stem
SiblingPath(p) ==
  path_join(dirname(p), OUTPUT_NAME_PATTERN(splitext(basename(p))))

\* C8 (output-path resolution): with a single target and no output file
\* chosen, or several targets and no folder chosen, the output path is the
\* sibling-mode path; with a folder chosen it is the folder joined with the
\* pattern applied to the stem; with a file chosen it is that file.
C8_OutPathResolution ==
  pc = "save" =>
    LET p == dst_paths[idx] IN
      /\ ~ask_where_to_save => out_path = SiblingPath(p)
      /\ (chosen_out_file = EmptyPath /\ chosen_out_dir = EmptyPath) =>
           out_path = SiblingPath(p)
      /\ chosen_out_dir # EmptyPath =>
           out_path = path_join(chosen_out_dir,
                                OUTPUT_NAME_PATTERN(splitext(basename(p))))
      /\ chosen_out_file # EmptyPath =>
           (Len(dst_paths) = 1 /\ out_path = chosen_out_file)

C8_Witness ==
  /\ pc = "save"
  /\ ask_where_to_save
  /\ Len(dst_paths) >= 2
  /\ idx = 2
  /\ chosen_out_dir = EmptyPath
  /\ dirname(dst_paths[1]) # dirname(dst_paths[2])
  /\ out_path = SiblingPath(dst_paths[2])
  /\ generated_paths[1] = SiblingPath(dst_paths[1])

\* the order of a run without failure: the source, then load, merge and
\* save of target 1, of target 2, ...
Canon(n) ==
  [j \in 1..(1 + 3 * n) |->
     IF j = 1 THEN Ev("load_src", 0)
     ELSE Ev(CASE (j - 2) % 3 = 0 -> "load"
               [] (j - 2) % 3 = 1 -> "merge"
               [] OTHER -> "save",
             ((j - 2) \div 3) + 1)]

NotFail(e) == ~IsFail(e)

Steps == SelectSeq(trace, NotFail)

\* C9 (processing order): the source is loaded once, before any target;
\* the targets are loaded, merged and saved once each, in input order, the
\* load of target i+1 coming after the save of target i; a run that ends
\* normally has done all of it.
C9_ProcessingOrder ==
  /\ Len(Steps) <= 1 + 3 * Len(dst_paths)
  /\ Steps = SubSeq(Canon(Len(dst_paths)), 1, Len(Steps))
  /\ pc = "done" => Steps = Canon(Len(dst_paths))
  /\ pc \in {"loop", "merge", "resolve", "save", "done"} => src_cfg # Unset

C9_Witness ==
  /\ pc = "done"
  /\ Len(dst_paths) >= 2
  /\ Len(trace) = 1 + 3 * Len(dst_paths)
  /\ trace[5] = Ev("load", 2)
  /\ trace[4] = Ev("save", 1)

====
